---------------------------- MODULE Spec2Model ----------------------------
(***************************************************************************)
(* Model of the miniccc command store (src/src/miniccc/command.go): the    *)
(* command map and its lock, the command ID counter and its lock, the      *)
(* expiry reaper, the checkin tracker, the operator handlers, and the      *)
(* update queue with its merge processor and file resolver.                *)
(*                                                                         *)
(* Strings of the HTTP form are sequences of one-token strings, so that    *)
(* strconv.Atoi, time.ParseDuration and time.Parse(time.Kitchen, .) are    *)
(* computed rather than assumed.  The wall clock counts seconds; the zero  *)
(* time.Time is the instant 0.                                             *)
(***************************************************************************)
EXTENDS Integers, Sequences, FiniteSets, TLC

(***************************************************************************)
(* Bounds of the model.                                                    *)
(***************************************************************************)
\* largest command ID the counter is allowed to reach (caps the int counter)
MaxID == 2
\* seconds the wall clock may advance after the first state
MaxElapsed == 2
\* longest checkin log that commandCheckIn is exercised on
MaxCheckins == 2
\* capacity of updateCommandQueue, scaled down from the program's 1024
QueueCap == 2

(***************************************************************************)
(* Calendar and clock.                                                     *)
(***************************************************************************)
SecondsPerMinute == 60
SecondsPerHour == 60 * SecondsPerMinute
SecondsPerDay == 24 * SecondsPerHour
\* time.Time{}: the zero instant
ZeroTime == 0
\* the first state is at 00:59:59 of day 1
StartNow == SecondsPerDay + SecondsPerHour - 1
MaxNow == StartNow + MaxElapsed

\* Time.IsZero
IsZero(t) == t = ZeroTime
\* Time.After
After(t, u) == t > u
\* time.Since(t), read at the instant clock
Since(clock, t) == clock - t
\* time.Date(now.Year(), now.Month(), now.Day(), h, m, s, 0, now.Location())
DateToday(clock, h, m, s) ==
    (clock \div SecondsPerDay) * SecondsPerDay
        + h * SecondsPerHour + m * SecondsPerMinute + s
\* Time.Hour, Time.Minute, Time.Second
HourOf(t) == (t % SecondsPerDay) \div SecondsPerHour
MinuteOf(t) == (t % SecondsPerHour) \div SecondsPerMinute
SecondOf(t) == t % SecondsPerMinute

(***************************************************************************)
(* Form text and its parsers.                                              *)
(***************************************************************************)
Digits == <<"0", "1", "2", "3", "4", "5", "6", "7", "8", "9">>
IsDigit(ch) == \E i \in 1..Len(Digits) : Digits[i] = ch
DigitVal(ch) == (CHOOSE i \in 1..Len(Digits) : Digits[i] = ch) - 1
AllDigits(s) == \A i \in 1..Len(s) : IsDigit(s[i])

RECURSIVE DecimalVal(_)
DecimalVal(s) ==
    IF s = <<>> THEN 0
    ELSE 10 * DecimalVal(SubSeq(s, 1, Len(s) - 1)) + DigitVal(s[Len(s)])

\* strconv.Atoi: an optional sign and one or more decimal digits
Atoi(s) ==
    LET signed == s # <<>> /\ s[1] \in {"+", "-"}
        body == IF signed THEN Tail(s) ELSE s
    IN  IF body = <<>> \/ ~AllDigits(body)
        THEN [val |-> 0, err |-> TRUE]
        ELSE [val |-> IF signed /\ s[1] = "-" THEN 0 - DecimalVal(body)
                      ELSE DecimalVal(body),
              err |-> FALSE]

\* the units of time.ParseDuration the form documents ("s", "m", "h")
UnitSeconds(u) ==
    IF u = <<"s">> THEN 1
    ELSE IF u = <<"m">> THEN SecondsPerMinute
    ELSE IF u = <<"h">> THEN SecondsPerHour
    ELSE 0

\* length of the longest prefix of s made of digits (D = TRUE) or of
\* non-digits (D = FALSE)
RECURSIVE RunLen(_, _)
RunLen(s, D) ==
    IF s = <<>> \/ (IsDigit(s[1]) # D) THEN 0
    ELSE 1 + RunLen(Tail(s), D)

\* the ([0-9]+[a-z]+)+ part of a duration: -1 on a syntax error
RECURSIVE DurationGroups(_)
DurationGroups(s) ==
    IF s = <<>> THEN 0
    ELSE LET n == RunLen(s, TRUE)
             rest == SubSeq(s, n + 1, Len(s))
             u == RunLen(rest, FALSE)
             unit == UnitSeconds(SubSeq(rest, 1, u))
             more == DurationGroups(SubSeq(rest, u + 1, Len(rest)))
         IN  IF n = 0 \/ u = 0 \/ unit = 0 \/ more = -1 THEN -1
             ELSE DecimalVal(SubSeq(s, 1, n)) * unit + more

\* time.ParseDuration: [-+]?([0-9]+unit)+, or "0"; 0 and an error otherwise
ParseDuration(s) ==
    LET signed == s # <<>> /\ s[1] \in {"+", "-"}
        body == IF signed THEN Tail(s) ELSE s
        g == DurationGroups(body)
    IN  IF body = <<"0">> THEN [val |-> 0, err |-> FALSE]
        ELSE IF body = <<>> \/ g = -1 THEN [val |-> 0, err |-> TRUE]
        ELSE [val |-> IF signed /\ s[1] = "-" THEN 0 - g ELSE g, err |-> FALSE]

\* time.Parse(time.Kitchen, s), layout "3:04PM": the zero time and an error
\* when s does not match, else the time of day on the zero date
ParseKitchen(s) ==
    LET h == RunLen(s, TRUE)
        wellFormed ==
            /\ h \in 1..2
            /\ Len(s) = h + 4
            /\ s[h + 1] = ":"
            /\ IsDigit(s[h + 2]) /\ IsDigit(s[h + 3])
            /\ s[h + 4] \in {"AM", "PM"}
        hour12 == DecimalVal(SubSeq(s, 1, h))
        minute == DecimalVal(SubSeq(s, h + 2, h + 3))
        hour == IF s[h + 4] = "PM" /\ hour12 < 12 THEN hour12 + 12
                ELSE IF s[h + 4] = "AM" /\ hour12 = 12 THEN 0
                ELSE hour12
    IN  IF wellFormed /\ hour12 <= 12 /\ minute <= 59
        THEN [val |-> hour * SecondsPerHour + minute * SecondsPerMinute,
              err |-> FALSE]
        ELSE [val |-> ZeroTime, err |-> TRUE]

\* strings.Fields over the token " "
RECURSIVE Fields(_)
Fields(s) ==
    IF s = <<>> THEN <<>>
    ELSE IF s[1] = " " THEN Fields(Tail(s))
    ELSE LET n == CHOOSE i \in 1..Len(s) :
                      /\ \A j \in 1..i : s[j] # " "
                      /\ (i = Len(s) \/ s[i + 1] = " ")
         IN  <<SubSeq(s, 1, n)>> \o Fields(SubSeq(s, n + 1, Len(s)))

Quote == "\""
HasPrefixQuote(v) == v # <<>> /\ v[1] = Quote
HasSuffixQuote(v) == v # <<>> /\ v[Len(v)] = Quote

\* the loop of fieldsQuoteEscape over the fields f, from (trace, temp, ret)
RECURSIVE QuoteLoop(_, _, _, _)
QuoteLoop(f, trace, temp, ret) ==
    IF f = <<>> THEN ret
    ELSE LET v == f[1]
         IN  IF trace
             THEN IF HasSuffixQuote(v)
                  THEN QuoteLoop(Tail(f), FALSE,
                                 temp \o <<" ">> \o SubSeq(v, 1, Len(v) - 1),
                                 Append(ret, temp \o <<" ">> \o SubSeq(v, 1, Len(v) - 1)))
                  ELSE QuoteLoop(Tail(f), TRUE, temp \o <<" ">> \o v, ret)
             ELSE IF HasPrefixQuote(v)
                  THEN QuoteLoop(Tail(f), TRUE, Tail(v), ret)
                  ELSE QuoteLoop(Tail(f), FALSE, temp, Append(ret, v))

fieldsQuoteEscape(input) == QuoteLoop(Fields(input), FALSE, <<>>, <<>>)

(***************************************************************************)
(* Commands.                                                               *)
(***************************************************************************)
COMMAND_EXEC == 0
COMMAND_FILE_SEND == 1
COMMAND_FILE_RECV == 2
COMMAND_LOG == 3

\* the zero value of type Command
ZeroCommand ==
    [ID |-> 0, Type |-> COMMAND_EXEC, Record |-> FALSE, Command |-> <<>>,
     FilesSend |-> <<>>, FilesRecv |-> <<>>, LogLevel |-> <<>>,
     LogPath |-> <<>>, Filter |-> <<>>, checkedIn |-> <<>>,
     ExpireClients |-> 0, ExpireStarted |-> ZeroTime,
     ExpireDuration |-> 0, ExpireTime |-> ZeroTime]

\* the fields of a Command other than its checkin log
PublicFields == DOMAIN ZeroCommand \ {"checkedIn"}

\* a form with every field blank, as r.FormValue reads it
BlankForm ==
    [type |-> <<>>, command |-> <<>>, filesend |-> <<>>, filerecv |-> <<>>,
     record |-> <<>>, loglevel |-> <<>>, logpath |-> <<>>,
     filter_cid |-> <<>>, filter_hostname |-> <<>>, filter_arch |-> <<>>,
     filter_os |-> <<>>, filter_osver |-> <<>>, filter_csdver |-> <<>>,
     filter_editionid |-> <<>>, filter_ip |-> <<>>, filter_mac |-> <<>>,
     expire_responses |-> <<>>, expire_duration |-> <<>>,
     expire_time |-> <<>>]

\* getFilter: one filter record built from the form
getFilter(r) ==
    <<[CID |-> IF Atoi(r.filter_cid).err THEN 0 ELSE Atoi(r.filter_cid).val,
       Hostname |-> r.filter_hostname, Arch |-> r.filter_arch,
       OS |-> r.filter_os, OSVer |-> r.filter_osver,
       CSDVer |-> r.filter_csdver, EditionID |-> r.filter_editionid,
       IP |-> Fields(r.filter_ip), MAC |-> Fields(r.filter_mac)]>>

\* handleNewCommand, expire_responses: strconv.Atoi, 0 on an error
ParseExpireClients(ec) ==
    IF Atoi(ec).err /\ ec # <<>> THEN 0 ELSE Atoi(ec).val

\* handleNewCommand, expire_duration: time.ParseDuration, error only logged
ParseExpireDuration(ed) == ParseDuration(ed).val

\* handleNewCommand, expire_time: time.Parse(time.Kitchen, et) moved to the
\* date of clock by time.Date, whether or not the parse failed
ParseExpireTime(et, clock) ==
    LET t == ParseKitchen(et).val
    IN  DateToday(clock, HourOf(t), MinuteOf(t), SecondOf(t))

\* the required field of each command type; <<>> for an unknown type
RequiredField(r) ==
    IF r.type = <<"exec">> THEN r.command
    ELSE IF r.type = <<"filesend">> THEN r.filesend
    ELSE IF r.type = <<"filerecv">> THEN r.filerecv
    ELSE IF r.type = <<"log">> THEN r.loglevel
    ELSE <<>>

\* the Command literal handleNewCommand builds for the form r: id from
\* getCommandID, started from time.Now(), the expiry values parsed before
BuildCommand(r, id, started, ec, ed, et) ==
    LET common == [ZeroCommand EXCEPT
                     !.ID = id,
                     !.Record = (r.record = <<"record">>),
                     !.Filter = getFilter(r),
                     !.ExpireClients = ec,
                     !.ExpireStarted = started,
                     !.ExpireDuration = ed,
                     !.ExpireTime = et]
    IN  IF r.type = <<"exec">>
        THEN [common EXCEPT !.Type = COMMAND_EXEC,
                            !.Command = fieldsQuoteEscape(r.command),
                            !.FilesSend = Fields(r.filesend),
                            !.FilesRecv = Fields(r.filerecv)]
        ELSE IF r.type = <<"filesend">>
        THEN [common EXCEPT !.Type = COMMAND_FILE_SEND,
                            !.FilesSend = Fields(r.filesend)]
        ELSE IF r.type = <<"filerecv">>
        THEN [common EXCEPT !.Type = COMMAND_FILE_RECV,
                            !.FilesRecv = Fields(r.filerecv)]
        ELSE [common EXCEPT !.Type = COMMAND_LOG,
                            !.LogLevel = r.loglevel,
                            !.LogPath = r.logpath]

(***************************************************************************)
(* State.                                                                  *)
(***************************************************************************)
VARIABLES
    commands,            \* map[int]*Command: a function from IDs to Commands
    commandCounter,      \* the last ID handed out or reconciled
    commandLock,         \* sync.Mutex: "free" or the goroutine holding it
    commandCounterLock,  \* sync.Mutex: "free" or the goroutine holding it
    updateCommandQueue,  \* the buffered channel: a sequence of command maps
    files,               \* <base>/files: file name -> stored content
    now,                 \* the wall clock, time.Now()
    pc,                  \* where each goroutine is
    loc,                 \* the local variables of each goroutine
    issued,              \* history: the IDs getCommandID has returned
    reconciled,          \* history: the IDs checkMaxCommandID was given
    reaped,              \* history: the IDs the reaper has removed
    responses            \* <base>/responses: the IDs with stored responses

vars == <<commands, commandCounter, commandLock, commandCounterLock,
          updateCommandQueue, files, now, pc, loc, issued, reconciled, reaped, responses>>

\* the goroutines: request handlers, the reaper, the merge processor
Handlers == {"h1", "h2"}
Reaper == "reaper"
Merger == "merger"
Procs == Handlers \cup {Reaper, Merger}

Free == "free"
IDs == 1..MaxID

\* the locals of a goroutine that has not run an operation yet
NoLocals == [op |-> "none"]
\* the locals left by an operation that returned ret
Returned(op, arg, ret) == [op |-> op, arg |-> arg, ret |-> ret]

\* init(): an empty map, an empty queue, the counter at its zero value
Init ==
    /\ commands = <<>>
    /\ commandCounter = 0
    /\ commandLock = Free
    /\ commandCounterLock = Free
    /\ updateCommandQueue = <<>>
    /\ files = <<>>
    /\ now = StartNow
    /\ pc = [p \in Procs |-> IF p = Reaper THEN "sleep"
                             ELSE IF p = Merger THEN "recv" ELSE "idle"]
    /\ loc = [p \in Procs |-> NoLocals]
    /\ issued = {}
    /\ reconciled = {}
    /\ reaped = {}
    /\ responses = {}

\* m with the key k removed (delete(m, k))
MapDelete(m, k) == [j \in DOMAIN m \ {k} |-> m[j]]
\* m with m[k] = v (an insert or an overwrite)
MapPut(m, k, v) == [j \in DOMAIN m \cup {k} |-> IF j = k THEN v ELSE m[j]]

Goto(p, label, locals) ==
    /\ pc' = [pc EXCEPT ![p] = label]
    /\ loc' = [loc EXCEPT ![p] = locals]

(***************************************************************************)
(* The ID counter: getCommandID and checkMaxCommandID.                     *)
(***************************************************************************)
\* commandCounter++
Increment(counter) == counter + 1

\* Reconcile without its comparison: the counter is set to whatever is seen
ReconcileAlways(counter, id) == id

\* checkMaxCommandID: if id > commandCounter { commandCounter = id }
Reconcile(counter, id) == IF id > counter THEN id ELSE counter

\* a direct call of getCommandID by a handler
getCommandID_Call(p) ==
    /\ pc[p] = "idle"
    /\ commandCounter < MaxID
    /\ Goto(p, "gid_lock", [op |-> "getCommandID"])
    /\ UNCHANGED <<commands, commandCounter, commandLock, commandCounterLock,
                   updateCommandQueue, files, now, issued, reconciled, reaped, responses>>

\* getCommandID: commandCounterLock.Lock()
getCommandID_Lock(p) ==
    /\ pc[p] = "gid_lock"
    /\ commandCounterLock = Free
    /\ commandCounterLock' = p
    /\ pc' = [pc EXCEPT ![p] = "gid_inc"]
    /\ UNCHANGED <<commands, commandCounter, commandLock, updateCommandQueue,
                   files, now, loc, issued, reconciled, reaped, responses>>

\* getCommandID: commandCounter++; id := commandCounter; the deferred unlock;
\* then the caller goes on with id (handleNewCommand builds its Command,
\* commandResubmit copies the original)
getCommandID_Inc(p) ==
    LET id == Increment(commandCounter)
    IN  /\ pc[p] = "gid_inc"
        /\ commandCounter' = id
        /\ commandCounterLock' = Free
        /\ issued' = issued \cup {id}
        /\ IF loc[p].op = "handleNewCommand"
           THEN Goto(p, "new_lock",
                     [op |-> "handleNewCommand",
                      c |-> BuildCommand(loc[p].r, id, now, loc[p].expireClients,
                                         loc[p].expireDuration, loc[p].expireTime)])
           ELSE IF loc[p].op = "commandResubmit"
           THEN Goto(p, "resubmit_install", [loc[p] EXCEPT !.newid = id])
           ELSE Goto(p, "idle", Returned("getCommandID", 0, id))
        /\ UNCHANGED <<commands, commandLock, updateCommandQueue, files, now,
                       reconciled, reaped, responses>>

\* checkMaxCommandID(id): the call, which goes on once
\* commandCounterLock.Lock() has the lock
checkMaxCommandID_Call(p, id) ==
    /\ pc[p] = "idle"
    /\ commandCounterLock = Free
    /\ commandCounterLock' = p
    /\ Goto(p, "max_set", [op |-> "checkMaxCommandID", id |-> id])
    /\ UNCHANGED <<commands, commandCounter, commandLock, updateCommandQueue,
                   files, now, issued, reconciled, reaped, responses>>

\* checkMaxCommandID: the comparison, the assignment, the deferred unlock
checkMaxCommandID_Set(p) ==
    /\ pc[p] = "max_set"
    /\ commandCounter' = Reconcile(commandCounter, loc[p].id)
    /\ commandCounterLock' = Free
    /\ reconciled' = reconciled \cup {loc[p].id}
    /\ Goto(p, "idle", NoLocals)
    /\ UNCHANGED <<commands, commandLock, updateCommandQueue, files, now,
                   issued, reaped, responses>>

(***************************************************************************)
(* Request handlers on the command map.                                    *)
(***************************************************************************)
NotFound(id) == <<"command", id, "not found">>

\* handleNewCommand up to the switch: the expiry fields are parsed, then a
\* blank required field (or no known type) answers without a command
handleNewCommand_Parse(p, r) ==
    /\ pc[p] = "idle"
    /\ commandCounter < MaxID
    /\ IF RequiredField(r) = <<>>
       THEN Goto(p, "idle", NoLocals)
       ELSE Goto(p, "gid_lock",
                 [op |-> "handleNewCommand", r |-> r,
                  expireClients |-> ParseExpireClients(r.expire_responses),
                  expireDuration |-> ParseExpireDuration(r.expire_duration),
                  expireTime |-> ParseExpireTime(r.expire_time, now)])
    /\ UNCHANGED <<commands, commandCounter, commandLock, commandCounterLock,
                   updateCommandQueue, files, now, issued, reconciled, reaped, responses>>

\* handleNewCommand: commandLock.Lock()
handleNewCommand_Lock(p) ==
    /\ pc[p] = "new_lock"
    /\ commandLock = Free
    /\ commandLock' = p
    /\ pc' = [pc EXCEPT ![p] = "new_install"]
    /\ UNCHANGED <<commands, commandCounter, commandCounterLock,
                   updateCommandQueue, files, now, loc, issued, reconciled, reaped, responses>>

\* handleNewCommand: commands[c.ID] = c; commandLock.Unlock()
handleNewCommand_Install(p) ==
    /\ pc[p] = "new_install"
    /\ commands' = MapPut(commands, loc[p].c.ID, loc[p].c)
    /\ commandLock' = Free
    /\ Goto(p, "idle", NoLocals)
    /\ UNCHANGED <<commandCounter, commandCounterLock, updateCommandQueue,
                   files, now, issued, reconciled, reaped, responses>>

\* a call of commandCheckIn, commandDelete, shouldRecord or commandResubmit:
\* it goes on once commandLock.Lock() has the lock
LockedCall(p, op, locals) ==
    /\ pc[p] = "idle"
    /\ commandLock = Free
    /\ commandLock' = p
    /\ Goto(p, op, locals @@ [op |-> op])
    /\ UNCHANGED <<commands, commandCounter, commandCounterLock,
                   updateCommandQueue, files, now, issued, reconciled, reaped, responses>>

commandCheckIn_Call(p, id, cid) ==
    /\ id \in DOMAIN commands => Len(commands[id].checkedIn) < MaxCheckins
    /\ LockedCall(p, "commandCheckIn", [id |-> id, cid |-> cid])

\* c.checkedIn = append(c.checkedIn, cid)
CheckIn(c, cid) == [c EXCEPT !.checkedIn = Append(c.checkedIn, cid)]

\* commandCheckIn without its lookup: a checkin for an ID that is not in the
\* map makes an entry for it
commandCheckIn_Resurrect(p) ==
    LET id == loc[p].id
    IN  /\ pc[p] = "commandCheckIn"
        /\ commands' = MapPut(commands, id,
                              CheckIn(IF id \in DOMAIN commands THEN commands[id]
                                      ELSE [ZeroCommand EXCEPT !.ID = id],
                                      loc[p].cid))
        /\ commandLock' = Free
        /\ Goto(p, "idle", NoLocals)
        /\ UNCHANGED <<commandCounter, commandCounterLock, updateCommandQueue,
                       files, now, issued, reconciled, reaped, responses>>

\* commandDelete that deletes nothing
commandDelete_Keeps(p) ==
    LET id == loc[p].id
    IN  /\ pc[p] = "commandDelete"
        /\ Goto(p, "idle", Returned("commandDelete", id, <<"command", id, "deleted">>))
        /\ commandLock' = Free
        /\ UNCHANGED <<commands, commandCounter, commandCounterLock,
                       updateCommandQueue, files, now, issued, reconciled, reaped, responses>>

\* commandCheckIn under the lock: the append when the command is there
commandCheckIn_Body(p) ==
    LET id == loc[p].id
    IN  /\ pc[p] = "commandCheckIn"
        /\ commands' = IF id \in DOMAIN commands
                       THEN [commands EXCEPT ![id] = CheckIn(commands[id], loc[p].cid)]
                       ELSE commands
        /\ commandLock' = Free
        /\ Goto(p, "idle", NoLocals)
        /\ UNCHANGED <<commandCounter, commandCounterLock, updateCommandQueue,
                       files, now, issued, reconciled, reaped, responses>>

commandDelete_Call(p, id) == LockedCall(p, "commandDelete", [id |-> id])

\* commandDelete under the lock
commandDelete_Body(p) ==
    LET id == loc[p].id
    IN  /\ pc[p] = "commandDelete"
        /\ IF id \in DOMAIN commands
           THEN /\ commands' = MapDelete(commands, id)
                /\ Goto(p, "idle", Returned("commandDelete", id, <<"command", id, "deleted">>))
           ELSE /\ commands' = commands
                /\ Goto(p, "idle", Returned("commandDelete", id, NotFound(id)))
        /\ commandLock' = Free
        /\ UNCHANGED <<commandCounter, commandCounterLock, updateCommandQueue,
                       files, now, issued, reconciled, reaped, responses>>

shouldRecord_Call(p, id) == LockedCall(p, "shouldRecord", [id |-> id])

\* shouldRecord under the lock
shouldRecord_Body(p) ==
    LET id == loc[p].id
    IN  /\ pc[p] = "shouldRecord"
        /\ Goto(p, "idle",
                Returned("shouldRecord", id,
                         IF id \in DOMAIN commands THEN commands[id].Record ELSE FALSE))
        /\ commandLock' = Free
        /\ UNCHANGED <<commands, commandCounter, commandCounterLock,
                       updateCommandQueue, files, now, issued, reconciled, reaped, responses>>

commandResubmit_Call(p, id) ==
    /\ commandCounter < MaxID
    /\ LockedCall(p, "commandResubmit", [id |-> id, newid |-> 0])

\* commandResubmit under the lock: the lookup; a command that is there leads
\* to getCommandID with commandLock held, one that is not to the answer
commandResubmit_Lookup(p) ==
    LET id == loc[p].id
    IN  /\ pc[p] = "commandResubmit"
        /\ IF id \in DOMAIN commands
           THEN /\ pc' = [pc EXCEPT ![p] = "gid_lock"]
                /\ UNCHANGED <<loc, commandLock>>
           ELSE /\ Goto(p, "idle", Returned("commandResubmit", id, NotFound(id)))
                /\ commandLock' = Free
        /\ UNCHANGED <<commands, commandCounter, commandCounterLock,
                       updateCommandQueue, files, now, issued, reconciled, reaped, responses>>

\* the Command literal of commandResubmit
ResubmitCopy(c, newid) ==
    [ZeroCommand EXCEPT !.ID = newid, !.Type = c.Type, !.Record = c.Record,
                        !.Command = c.Command, !.FilesSend = c.FilesSend,
                        !.FilesRecv = c.FilesRecv, !.LogLevel = c.LogLevel,
                        !.LogPath = c.LogPath, !.Filter = c.Filter]

\* commandResubmit: commands[newcommand.ID] = newcommand, the deferred unlock
commandResubmit_Install(p) ==
    LET id == loc[p].id
        newid == loc[p].newid
    IN  /\ pc[p] = "resubmit_install"
        /\ commands' = MapPut(commands, newid, ResubmitCopy(commands[id], newid))
        /\ commandLock' = Free
        /\ Goto(p, "idle",
                Returned("commandResubmit", id,
                         <<"command", id, "resubmitted as command", newid>>))
        /\ UNCHANGED <<commandCounter, commandCounterLock, updateCommandQueue,
                       files, now, issued, reconciled, reaped, responses>>

\* commandDeleteFiles(id): the call, which goes on once commandLock.Lock()
\* has the lock
commandDeleteFiles_Call(p, id) ==
    LockedCall(p, "commandDeleteFiles", [id |-> id])

\* commandDeleteFiles under the lock: os.RemoveAll of <base>/responses/<id>
\* when the command is in the map (removeErr: RemoveAll fails and its error
\* is the answer), "not found" when it is not
commandDeleteFiles_Body(p, removeErr) ==
    LET id == loc[p].id
    IN  /\ pc[p] = "commandDeleteFiles"
        /\ IF id \in DOMAIN commands
           THEN IF removeErr
                THEN /\ responses' = responses
                     /\ Goto(p, "idle",
                             Returned("commandDeleteFiles", id, <<"error">>))
                ELSE /\ responses' = responses \ {id}
                     /\ Goto(p, "idle",
                             Returned("commandDeleteFiles", id,
                                      <<"command", id, "files deleted">>))
           ELSE /\ responses' = responses
                /\ Goto(p, "idle", Returned("commandDeleteFiles", id, NotFound(id)))
        /\ commandLock' = Free
        /\ UNCHANGED <<commands, commandCounter, commandCounterLock,
                       updateCommandQueue, files, now, issued, reconciled, reaped>>

\* a client's response to command id is stored under <base>/responses/<id>:
\* done by the response handler once shouldRecord(id) has answered true
StoreResponse(id) ==
    /\ commandLock = Free
    /\ id \in DOMAIN commands
    /\ commands[id].Record
    /\ id \notin responses
    /\ responses' = responses \cup {id}
    /\ UNCHANGED <<commands, commandCounter, commandLock, commandCounterLock,
                   updateCommandQueue, files, now, pc, loc, issued, reconciled,
                   reaped>>

\* updateCommands(newCommands): updateCommandQueue <- newCommands, which
\* goes on once the buffer has room
updateCommands(p, newCommands) ==
    /\ pc[p] = "idle"
    /\ Len(updateCommandQueue) < QueueCap
    /\ updateCommandQueue' = Append(updateCommandQueue, newCommands)
    /\ UNCHANGED <<commands, commandCounter, commandLock, commandCounterLock,
                   files, now, pc, loc, issued, reconciled, reaped, responses>>

\* gob encoding of the map: the exported fields of every command (the
\* checkin log is private and is not sent)
Encoded(m) == [k \in DOMAIN m |-> [f \in PublicFields |-> m[k][f]]]

\* encodeCommands: enc.Encode(commands) starts to range over the map; it
\* takes no lock; seen is the map as it was then
encodeCommands_Call(p) ==
    /\ pc[p] = "idle"
    /\ Goto(p, "encode", [op |-> "encodeCommands", seen |-> commands])
    /\ UNCHANGED <<commands, commandCounter, commandLock, commandCounterLock,
                   updateCommandQueue, files, now, issued, reconciled, reaped,
                   responses>>

\* encodeCommands returns. When the map was written while it was read (a
\* data race) the outcome is any of: the map as it was, the map as it is,
\* the runtime's fatal "concurrent map iteration and map write"
encodeCommands_Return(p, fatal, late) ==
    /\ pc[p] = "encode"
    /\ (fatal \/ late) => loc[p].seen # commands
    /\ Goto(p, "idle",
            Returned("encodeCommands", 0,
                     [fatal |-> fatal,
                      bytes |-> IF fatal THEN <<>>
                                ELSE IF late THEN Encoded(commands)
                                ELSE Encoded(loc[p].seen)]))
    /\ UNCHANGED <<commands, commandCounter, commandLock, commandCounterLock,
                   updateCommandQueue, files, now, issued, reconciled, reaped,
                   responses>>

\* updateCommands(newCommands) as two steps: the call, and the send, at
\* which the goroutine waits while the buffer is full
updateCommands_Call(p, newCommands) ==
    /\ pc[p] = "idle"
    /\ Goto(p, "send", [op |-> "updateCommands", newCommands |-> newCommands])
    /\ UNCHANGED <<commands, commandCounter, commandLock, commandCounterLock,
                   updateCommandQueue, files, now, issued, reconciled, reaped,
                   responses>>

\* a send that gives the batch up when the buffer is full
updateCommands_SendDrops(p) ==
    /\ pc[p] = "send"
    /\ updateCommandQueue' =
           IF Len(updateCommandQueue) < QueueCap
           THEN Append(updateCommandQueue, loc[p].newCommands)
           ELSE updateCommandQueue
    /\ Goto(p, "idle", NoLocals)
    /\ UNCHANGED <<commands, commandCounter, commandLock, commandCounterLock,
                   files, now, issued, reconciled, reaped, responses>>

\* updateCommandQueue <- newCommands
updateCommands_Send(p) ==
    /\ pc[p] = "send"
    /\ Len(updateCommandQueue) < QueueCap
    /\ updateCommandQueue' = Append(updateCommandQueue, loc[p].newCommands)
    /\ Goto(p, "idle", NoLocals)
    /\ UNCHANGED <<commands, commandCounter, commandLock, commandCounterLock,
                   files, now, issued, reconciled, reaped, responses>>

(***************************************************************************)
(* The reaper.                                                             *)
(***************************************************************************)
\* Expired with the count compared by > instead of >=
ExpiredCountOffByOne(v, tickNow, clock) ==
    IF v.ExpireClients # 0
    THEN Len(v.checkedIn) > v.ExpireClients
    ELSE IF v.ExpireDuration # 0
    THEN Since(clock, v.ExpireStarted) > v.ExpireDuration
    ELSE IF ~IsZero(v.ExpireTime)
    THEN After(tickNow, v.ExpireTime)
    ELSE FALSE

\* Expired with the duration compared by >= instead of >
ExpiredDurationAtOrAfter(v, tickNow, clock) ==
    IF v.ExpireClients # 0
    THEN Len(v.checkedIn) >= v.ExpireClients
    ELSE IF v.ExpireDuration # 0
    THEN Since(clock, v.ExpireStarted) >= v.ExpireDuration
    ELSE IF ~IsZero(v.ExpireTime)
    THEN After(tickNow, v.ExpireTime)
    ELSE FALSE

\* Expired with !now.Before(ExpireTime) in place of now.After(ExpireTime)
ExpiredTimeNotBefore(v, tickNow, clock) ==
    IF v.ExpireClients # 0
    THEN Len(v.checkedIn) >= v.ExpireClients
    ELSE IF v.ExpireDuration # 0
    THEN Since(clock, v.ExpireStarted) > v.ExpireDuration
    ELSE IF ~IsZero(v.ExpireTime)
    THEN tickNow >= v.ExpireTime
    ELSE FALSE

\* the if / else-if chain of expireReaper for one command v: tickNow is the
\* now read before the lock was taken, clock the time time.Since reads
Expired(v, tickNow, clock) ==
    IF v.ExpireClients # 0
    THEN Len(v.checkedIn) >= v.ExpireClients
    ELSE IF v.ExpireDuration # 0
    THEN Since(clock, v.ExpireStarted) > v.ExpireDuration
    ELSE IF ~IsZero(v.ExpireTime)
    THEN After(tickNow, v.ExpireTime)
    ELSE FALSE

\* the range loop of expireReaper: every command that meets its condition
\* is deleted
Reap(m, tickNow, clock) ==
    [k \in {j \in DOMAIN m : ~Expired(m[j], tickNow, clock)} |-> m[k]]

\* expireReaper: time.Sleep returns; now := time.Now()
expireReaper_Wake ==
    /\ pc[Reaper] = "sleep"
    /\ Goto(Reaper, "reap_lock", [op |-> "expireReaper", now |-> now])
    /\ UNCHANGED <<commands, commandCounter, commandLock, commandCounterLock,
                   updateCommandQueue, files, now, issued, reconciled, reaped, responses>>

\* expireReaper: commandLock.Lock()
expireReaper_Lock ==
    /\ pc[Reaper] = "reap_lock"
    /\ commandLock = Free
    /\ commandLock' = Reaper
    /\ pc' = [pc EXCEPT ![Reaper] = "reap_scan"]
    /\ UNCHANGED <<commands, commandCounter, commandCounterLock,
                   updateCommandQueue, files, now, loc, issued, reconciled, reaped, responses>>

\* expireReaper: the scan of the whole map; expired is what the scan logged
\* ("expiring command ...")
expireReaper_Scan ==
    /\ pc[Reaper] = "reap_scan"
    /\ commands' = Reap(commands, loc[Reaper].now, now)
    /\ reaped' = reaped \cup (DOMAIN commands \ DOMAIN commands')
    /\ Goto(Reaper, "reap_unlock",
            [op |-> "expireReaper", now |-> loc[Reaper].now,
             expired |-> [k \in DOMAIN commands \ DOMAIN commands' |-> commands[k]]])
    /\ UNCHANGED <<commandCounter, commandLock, commandCounterLock,
                   updateCommandQueue, files, now, issued, reconciled,
                   responses>>

\* expireReaper: commandLock.Unlock(), back to time.Sleep
expireReaper_Unlock ==
    /\ pc[Reaper] = "reap_unlock"
    /\ commandLock' = Free
    /\ Goto(Reaper, "sleep", NoLocals)
    /\ UNCHANGED <<commands, commandCounter, commandCounterLock,
                   updateCommandQueue, files, now, issued, reconciled, reaped, responses>>

\* the wall clock advances by a second
Tick ==
    /\ now < MaxNow
    /\ now' = now + 1
    /\ UNCHANGED <<commands, commandCounter, commandLock, commandCounterLock,
                   updateCommandQueue, files, pc, loc, issued, reconciled, reaped, responses>>

(***************************************************************************)
(* The merge processor and the file resolver.                              *)
(***************************************************************************)
\* Merged without the copy of the checkin log
MergedDropsCheckins(m, k, v) == v

\* the record the merge processor installs for the inbound v: the checkin
\* log of the entry w that is in the map, when there is one
Merged(m, k, v) ==
    IF k \in DOMAIN m THEN [v EXCEPT !.checkedIn = m[k].checkedIn] ELSE v

\* what http.Get can come back with: an error, or a response of any status
\* whose body is then stored
GetOutcomes ==
    {[err |-> TRUE, status |-> 0, body |-> "none"],
     [err |-> FALSE, status |-> 200, body |-> "file"],
     [err |-> FALSE, status |-> 404, body |-> "error page"]}

\* c := <-updateCommandQueue; batch is the map as it was received and done
\* the keys of it the loop has been through
updateCommandQueueProcessor_Recv ==
    /\ pc[Merger] = "recv"
    /\ updateCommandQueue # <<>>
    /\ updateCommandQueue' = Tail(updateCommandQueue)
    /\ Goto(Merger, "range", [op |-> "updateCommandQueueProcessor",
                              c |-> Head(updateCommandQueue),
                              batch |-> Head(updateCommandQueue), done |-> {}])
    /\ UNCHANGED <<commands, commandCounter, commandLock, commandCounterLock,
                   files, now, issued, reconciled, reaped, responses>>

\* the range loop that takes commandLock before it resolves the files
updateCommandQueueProcessor_RangeLocked ==
    /\ pc[Merger] = "range"
    /\ commandLock = Free
    /\ commandLock' = IF DOMAIN loc[Merger].c = {} THEN Free ELSE Merger
    /\ IF DOMAIN loc[Merger].c = {}
       THEN Goto(Merger, "recv", NoLocals)
       ELSE \E k \in DOMAIN loc[Merger].c :
              LET v == loc[Merger].c[k]
              IN  Goto(Merger,
                       IF Len(v.FilesSend) # 0 THEN "stat" ELSE "merge_install",
                       [op |-> "updateCommandQueueProcessor",
                        c |-> MapDelete(loc[Merger].c, k),
                        batch |-> loc[Merger].batch, done |-> loc[Merger].done,
                        k |-> k, v |-> v, todo |-> v.FilesSend])
    /\ UNCHANGED <<commands, commandCounter, commandCounterLock,
                   updateCommandQueue, files, now, issued, reconciled, reaped,
                   responses>>

\* for k, v := range c: the next key in any order, or the end of the loop;
\* a command with files to send goes through commandGetFiles first
updateCommandQueueProcessor_Range ==
    /\ pc[Merger] = "range"
    /\ IF DOMAIN loc[Merger].c = {}
       THEN Goto(Merger, "recv", NoLocals)
       ELSE \E k \in DOMAIN loc[Merger].c :
              LET v == loc[Merger].c[k]
              IN  Goto(Merger,
                       IF Len(v.FilesSend) # 0 THEN "stat" ELSE "merge_lock",
                       [op |-> "updateCommandQueueProcessor",
                        c |-> MapDelete(loc[Merger].c, k),
                        batch |-> loc[Merger].batch, done |-> loc[Merger].done,
                        k |-> k, v |-> v, todo |-> v.FilesSend])
    /\ UNCHANGED <<commands, commandCounter, commandLock, commandCounterLock,
                   updateCommandQueue, files, now, issued, reconciled, reaped, responses>>

\* commandGetFiles: the loop head and os.Stat; a file that is there is
\* skipped, one that is not is requested from the parent
commandGetFiles_Stat ==
    /\ pc[Merger] = "stat"
    /\ IF loc[Merger].todo = <<>>
       THEN pc' = [pc EXCEPT ![Merger] = "merge_lock"] /\ loc' = loc
       ELSE IF Head(loc[Merger].todo) \in DOMAIN files
       THEN Goto(Merger, "stat", [loc[Merger] EXCEPT !.todo = Tail(@)])
       ELSE pc' = [pc EXCEPT ![Merger] = "get"] /\ loc' = loc
    /\ UNCHANGED <<commands, commandCounter, commandLock, commandCounterLock,
                   updateCommandQueue, files, now, issued, reconciled, reaped, responses>>

\* commandGetFiles whose failed fetch gives up the command: back to the
\* range loop without the install
commandGetFiles_GetAborts(resp, fsErr) ==
    /\ pc[Merger] = "get"
    /\ files' = IF resp.err \/ fsErr THEN files
                ELSE MapPut(files, Head(loc[Merger].todo), resp.body)
    /\ IF resp.err \/ fsErr
       THEN Goto(Merger, "range", [op |-> "updateCommandQueueProcessor",
                                   c |-> loc[Merger].c,
                                   batch |-> loc[Merger].batch,
                                   done |-> loc[Merger].done])
       ELSE Goto(Merger, "stat", [loc[Merger] EXCEPT !.todo = Tail(@)])
    /\ UNCHANGED <<commands, commandCounter, commandLock, commandCounterLock,
                   updateCommandQueue, now, issued, reconciled, reaped, responses>>

\* commandGetFiles: http.Get returns; on an error the file is skipped; the
\* directory or the file cannot be made (fsErr): skipped; else the body is
\* copied to the file
commandGetFiles_Get(resp, fsErr) ==
    /\ pc[Merger] = "get"
    /\ files' = IF resp.err \/ fsErr THEN files
                ELSE MapPut(files, Head(loc[Merger].todo), resp.body)
    /\ Goto(Merger, "stat", [loc[Merger] EXCEPT !.todo = Tail(@)])
    /\ UNCHANGED <<commands, commandCounter, commandLock, commandCounterLock,
                   updateCommandQueue, now, issued, reconciled, reaped, responses>>

\* commandGetFiles: the parent never answers; http.Get is called without a
\* timeout and does not return
commandGetFiles_Blocked ==
    /\ pc[Merger] = "get"
    /\ pc' = [pc EXCEPT ![Merger] = "get_blocked"]
    /\ UNCHANGED <<commands, commandCounter, commandLock, commandCounterLock,
                   updateCommandQueue, files, now, loc, issued, reconciled,
                   reaped, responses>>

\* updateCommandQueueProcessor: commandLock.Lock()
updateCommandQueueProcessor_Lock ==
    /\ pc[Merger] = "merge_lock"
    /\ commandLock = Free
    /\ commandLock' = Merger
    /\ pc' = [pc EXCEPT ![Merger] = "merge_install"]
    /\ UNCHANGED <<commands, commandCounter, commandCounterLock,
                   updateCommandQueue, files, now, loc, issued, reconciled, reaped, responses>>

\* updateCommandQueueProcessor under the lock: the checkin log of the entry
\* in the map is kept, commands[k] = v
updateCommandQueueProcessor_Install ==
    /\ pc[Merger] = "merge_install"
    /\ commands' = MapPut(commands, loc[Merger].k,
                          Merged(commands, loc[Merger].k, loc[Merger].v))
    /\ Goto(Merger, "merge_unlock",
            [loc[Merger] EXCEPT !.todo = <<>>]
                @@ [ok |-> loc[Merger].k \in DOMAIN commands,
                    w |-> IF loc[Merger].k \in DOMAIN commands
                          THEN commands[loc[Merger].k] ELSE ZeroCommand])
    /\ UNCHANGED <<commandCounter, commandLock, commandCounterLock,
                   updateCommandQueue, files, now, issued, reconciled, reaped, responses>>

\* the merge processor that goes on to the next key with the lock held
updateCommandQueueProcessor_KeepsLock ==
    /\ pc[Merger] = "merge_unlock"
    /\ Goto(Merger, "range", [op |-> "updateCommandQueueProcessor",
                              c |-> loc[Merger].c,
                              batch |-> loc[Merger].batch,
                              done |-> loc[Merger].done \cup {loc[Merger].k}])
    /\ UNCHANGED <<commands, commandCounter, commandLock, commandCounterLock,
                   updateCommandQueue, files, now, issued, reconciled, reaped,
                   responses>>

\* updateCommandQueueProcessor: commandLock.Unlock(), on to the next key
updateCommandQueueProcessor_Unlock ==
    /\ pc[Merger] = "merge_unlock"
    /\ commandLock' = Free
    /\ Goto(Merger, "range", [op |-> "updateCommandQueueProcessor",
                              c |-> loc[Merger].c,
                              batch |-> loc[Merger].batch,
                              done |-> loc[Merger].done \cup {loc[Merger].k}])
    /\ UNCHANGED <<commands, commandCounter, commandCounterLock,
                   updateCommandQueue, files, now, issued, reconciled, reaped, responses>>

(***************************************************************************)
(* Inputs.                                                                 *)
(***************************************************************************)
\* client IDs that check in
ClientIDs == {101, 102}

\* an operator's form for an exec command with every expiry field blank
ExecForm == [BlankForm EXCEPT !.type = <<"exec">>,
                              !.command = <<"echo", " ", "hi">>,
                              !.record = <<"record">>]

\* forms for a log command, one per way of filling the expiry fields
LogForm == [BlankForm EXCEPT !.type = <<"log">>, !.loglevel = <<"warn">>]
ExpiryForms ==
    {LogForm,
     [LogForm EXCEPT !.expire_responses = <<"2">>],
     [LogForm EXCEPT !.expire_duration = <<"1", "s">>],
     [LogForm EXCEPT !.expire_time = <<"1", ":", "0", "0", "AM">>],
     [LogForm EXCEPT !.expire_responses = <<"x">>,
                     !.expire_duration = <<"1">>,
                     !.expire_time = <<"1", "3", ":", "0", "0", "AM">>]}

\* forms that set more than one expiry field, or set one below zero
PolicyForms ==
    {[LogForm EXCEPT !.expire_responses = <<"2">>,
                     !.expire_duration = <<"1", "s">>],
     [LogForm EXCEPT !.expire_responses = <<"-", "1">>,
                     !.expire_time = <<"1", ":", "0", "0", "AM">>],
     [LogForm EXCEPT !.expire_duration = <<"-", "1", "s">>,
                     !.expire_time = <<"1", ":", "0", "0", "AM">>]}

\* commands as a peer sends them: the checkin log is not transmitted
PeerExec(id) ==
    [ZeroCommand EXCEPT !.ID = id, !.Command = <<(<<"ls">>)>>,
                        !.ExpireClients = 1]
PeerLog(id) ==
    [ZeroCommand EXCEPT !.ID = id, !.Type = COMMAND_LOG,
                        !.LogLevel = <<"debug">>]
PeerSend(id) ==
    [ZeroCommand EXCEPT !.ID = id, !.Type = COMMAND_FILE_SEND,
                        !.FilesSend = <<(<<"f1">>), (<<"f2">>)>>]

\* the command maps handed to updateCommands
InboundMaps == {(1 :> PeerExec(1)) @@ (2 :> PeerLog(2))}
\* two maps that differ, for the order of the queue
QueueMaps == {1 :> PeerExec(1), 2 :> PeerLog(2)}
\* command maps whose commands have files to send
FileMaps == {(1 :> PeerSend(1)) @@ (2 :> PeerLog(2))}

(***************************************************************************)
(* Specifications.                                                         *)
(***************************************************************************)
\* the steps that finish an operation a handler has begun
HandlerSteps(p) ==
    \/ getCommandID_Lock(p)
    \/ getCommandID_Inc(p)
    \/ handleNewCommand_Lock(p)
    \/ handleNewCommand_Install(p)
    \/ commandCheckIn_Body(p)

ReaperSteps ==
    \/ expireReaper_Wake
    \/ expireReaper_Lock
    \/ expireReaper_Scan
    \/ expireReaper_Unlock

MergerSteps ==
    \/ updateCommandQueueProcessor_Recv
    \/ updateCommandQueueProcessor_Range
    \/ updateCommandQueueProcessor_Lock
    \/ updateCommandQueueProcessor_Install
    \/ updateCommandQueueProcessor_Unlock

FileSteps ==
    \/ commandGetFiles_Stat
    \/ \E resp \in GetOutcomes, fsErr \in BOOLEAN : commandGetFiles_Get(resp, fsErr)
    \/ commandGetFiles_Blocked

\* the command store: an operator, a peer's map, the reaper, the merger
Next ==
    \/ handleNewCommand_Parse("h1", ExecForm)
    \/ \E id \in IDs : commandCheckIn_Call("h1", id, 101)
    \/ \E id \in IDs : commandResubmit_Call("h1", id)
    \/ \E m \in InboundMaps : updateCommands("h1", m)
    \/ HandlerSteps("h1")
    \/ commandResubmit_Lookup("h1")
    \/ commandResubmit_Install("h1")
    \/ ReaperSteps
    \/ MergerSteps

Spec == Init /\ [][Next]_vars

\* the operations on one command ID, with the reaper
NextOps ==
    \/ handleNewCommand_Parse("h1", ExecForm)
    \/ \E id \in IDs, cid \in ClientIDs : commandCheckIn_Call("h1", id, cid)
    \/ \E id \in IDs : commandDelete_Call("h1", id)
    \/ \E id \in IDs : shouldRecord_Call("h1", id)
    \/ \E id \in IDs : commandResubmit_Call("h1", id)
    \/ HandlerSteps("h1")
    \/ commandDelete_Body("h1")
    \/ shouldRecord_Body("h1")
    \/ commandResubmit_Lookup("h1")
    \/ commandResubmit_Install("h1")
    \/ ReaperSteps

SpecOps == Init /\ [][NextOps]_vars

\* file resolution: a peer's map with files to send, and the merger
NextFiles ==
    \/ \E m \in FileMaps : updateCommands("h1", m)
    \/ \E id \in IDs : commandCheckIn_Call("h1", id, 101)
    \/ \E id \in IDs : commandDelete_Call("h1", id)
    \/ commandCheckIn_Body("h1")
    \/ commandDelete_Body("h1")
    \/ ReaperSteps
    \/ MergerSteps
    \/ FileSteps

SpecFiles == Init /\ [][NextFiles]_vars

\* file resolution under fair scheduling: every goroutine that can take a
\* step takes one, and sync.Mutex hands the lock to a goroutine that keeps
\* waiting for it (its starvation mode)
NextFetch ==
    \/ \E m \in FileMaps : updateCommands("h1", m)
    \/ \E id \in IDs : commandCheckIn_Call("h1", id, 101)
    \/ commandCheckIn_Body("h1")
    \/ MergerSteps
    \/ FileSteps

SpecFetch ==
    /\ Init
    /\ [][NextFetch]_vars
    /\ WF_vars(commandCheckIn_Body("h1"))
    /\ WF_vars(updateCommandQueueProcessor_Recv)
    /\ WF_vars(updateCommandQueueProcessor_Range)
    /\ SF_vars(updateCommandQueueProcessor_Lock)
    /\ WF_vars(updateCommandQueueProcessor_Install)
    /\ WF_vars(updateCommandQueueProcessor_Unlock)
    /\ WF_vars(FileSteps)

\* the order of the policies: forms with several expiry fields, the clock
NextPolicy ==
    \/ \E r \in PolicyForms : handleNewCommand_Parse("h1", r)
    \/ \E id \in IDs : commandCheckIn_Call("h1", id, 101)
    \/ HandlerSteps("h1")
    \/ ReaperSteps
    \/ Tick

SpecPolicy == Init /\ [][NextPolicy]_vars

\* readers and writers of the map: a handler that creates commands and
\* checks in, a handler that encodes the map, the reaper
NextRace ==
    \/ handleNewCommand_Parse("h1", ExecForm)
    \/ \E id \in IDs : commandCheckIn_Call("h1", id, 101)
    \/ HandlerSteps("h1")
    \/ encodeCommands_Call("h2")
    \/ \E fatal, late \in BOOLEAN : encodeCommands_Return("h2", fatal, late)
    \/ ReaperSteps

SpecRace == Init /\ [][NextRace]_vars

\* the two locks under fair scheduling: h1 resubmits commands
\* (commandCounterLock inside commandLock), h2 creates commands, the
\* reaper and the merge processor take commandLock. A goroutine that can
\* take a step takes one, and a goroutine that keeps waiting for a
\* sync.Mutex is handed it
NextLocks ==
    \/ handleNewCommand_Parse("h2", ExecForm)
    \/ \E id \in IDs : commandResubmit_Call("h1", id)
    \/ updateCommands("h1", 1 :> PeerExec(1))
    \/ \E p \in Handlers : getCommandID_Lock(p)
    \/ \E p \in Handlers : getCommandID_Inc(p)
    \/ handleNewCommand_Lock("h2")
    \/ handleNewCommand_Install("h2")
    \/ commandResubmit_Lookup("h1")
    \/ commandResubmit_Install("h1")
    \/ ReaperSteps
    \/ MergerSteps

SpecLocks ==
    /\ Init
    /\ [][NextLocks]_vars
    /\ \A p \in Handlers :
           /\ SF_vars(getCommandID_Lock(p) \/ handleNewCommand_Lock(p))
           /\ WF_vars(\/ getCommandID_Inc(p)
                      \/ handleNewCommand_Install(p)
                      \/ commandResubmit_Lookup(p)
                      \/ commandResubmit_Install(p))
    /\ SF_vars(expireReaper_Lock)
    /\ WF_vars(expireReaper_Scan \/ expireReaper_Unlock)
    /\ SF_vars(updateCommandQueueProcessor_Lock)
    /\ WF_vars(\/ updateCommandQueueProcessor_Install
               \/ updateCommandQueueProcessor_Unlock)

\* the update queue: two producers, the merge processor as the consumer
NextQueue ==
    \/ \E p \in Handlers, m \in QueueMaps : updateCommands_Call(p, m)
    \/ \E p \in Handlers : updateCommands_Send(p)
    \/ MergerSteps

SpecQueue == Init /\ [][NextQueue]_vars

\* stored responses: creation, the reaper, commandDelete, commandDeleteFiles
NextResp ==
    \/ handleNewCommand_Parse("h1", ExecForm)
    \/ \E id \in IDs : commandCheckIn_Call("h1", id, 101)
    \/ HandlerSteps("h1")
    \/ \E id \in IDs : StoreResponse(id)
    \/ \E id \in IDs : commandDelete_Call("h1", id)
    \/ commandDelete_Body("h1")
    \/ \E id \in IDs : commandDeleteFiles_Call("h1", id)
    \/ \E removeErr \in BOOLEAN : commandDeleteFiles_Body("h1", removeErr)
    \/ ReaperSteps

SpecResp == Init /\ [][NextResp]_vars

\* the ID counter alone, under concurrent callers
NextAlloc ==
    \E p \in Handlers :
        \/ getCommandID_Call(p)
        \/ getCommandID_Lock(p)
        \/ getCommandID_Inc(p)
        \/ \E id \in IDs : checkMaxCommandID_Call(p, id)
        \/ checkMaxCommandID_Set(p)

SpecAlloc == Init /\ [][NextAlloc]_vars

\* creation, checkins, the reaper and the clock
NextExpiry ==
    \/ \E r \in ExpiryForms : handleNewCommand_Parse("h1", r)
    \/ \E id \in IDs : commandCheckIn_Call("h1", id, 101)
    \/ HandlerSteps("h1")
    \/ ReaperSteps
    \/ Tick

SpecExpiry == Init /\ [][NextExpiry]_vars

(***************************************************************************)
(* Properties.                                                             *)
(***************************************************************************)
IsPrefix(s, t) == Len(s) <= Len(t) /\ SubSeq(t, 1, Len(s)) = s

\* the steps the properties speak about
MintStep(p) == pc[p] = "gid_inc" /\ pc'[p] # "gid_inc"
CreateInstallStep(p) == pc[p] = "new_install" /\ pc'[p] = "idle"
ResubmitInstallStep(p) == pc[p] = "resubmit_install" /\ pc'[p] = "idle"
MergeInstallStep == pc[Merger] = "merge_install" /\ pc'[Merger] = "merge_unlock"
ScanStep == pc[Reaper] = "reap_scan" /\ pc'[Reaper] = "reap_unlock"
\* a command a reaper tick has removed: it was in the map and is not any more
RemovedByStep(k) == k \in DOMAIN commands /\ k \notin DOMAIN commands'

\* C1: in every interleaving of getCommandID and checkMaxCommandID calls,
\* concurrent ones included, the ID getCommandID takes under the counter lock
\* and returns is strictly greater than every ID returned before and than
\* every ID checkMaxCommandID was given before.
C1_ReturnedIDsIncrease ==
    [][\A p \in Handlers :
         (pc[p] = "gid_inc" /\ pc'[p] = "idle")
             => \A i \in issued \cup reconciled : loc'[p].ret > i]_vars

\* C1 witness: an ID was reconciled, and getCommandID has since returned a
\* greater one, after an earlier ID of its own
C1_Witness ==
    \E p \in Handlers :
        /\ pc[p] = "idle" /\ loc[p].op = "getCommandID"
        /\ reconciled = {1}
        /\ issued = {1, 2}
        /\ loc[p].ret = 2

\* C2: when the merge processor installs the inbound record v under an ID
\* that is in the map, the entry installed has the checkin log the entry had
\* at that moment and every other field of v; under an ID that is not in the
\* map, v is installed as it is.
C2_MergeKeepsCheckins ==
    [][MergeInstallStep =>
         LET k == loc[Merger].k
             v == loc[Merger].v
         IN  /\ k \in DOMAIN commands'
             /\ k \in DOMAIN commands =>
                    /\ commands'[k].checkedIn = commands[k].checkedIn
                    /\ \A f \in PublicFields : commands'[k][f] = v[f]
             /\ k \notin DOMAIN commands => commands'[k] = v
             /\ \A j \in DOMAIN commands \ {k} :
                    j \in DOMAIN commands' /\ commands'[j] = commands[j]]_vars

\* C2 witness: the merger has just overwritten an entry that had two
\* checkins and another command line with an inbound record that had none
C2_Witness ==
    /\ pc[Merger] = "merge_unlock"
    /\ loc[Merger].ok
    /\ Len(loc[Merger].w.checkedIn) = 2
    /\ loc[Merger].v.checkedIn = <<>>
    /\ loc[Merger].w.Command # loc[Merger].v.Command
    /\ commands[loc[Merger].k].checkedIn = loc[Merger].w.checkedIn
    /\ commands[loc[Merger].k].Command = loc[Merger].v.Command

\* C3 (as claimed): as long as a command ID stays in the map, its checkin
\* log only grows by appends, whatever step is taken.
C3_CheckinsOnlyGrow ==
    [][\A k \in DOMAIN commands \cap DOMAIN commands' :
         IsPrefix(commands[k].checkedIn, commands'[k].checkedIn)]_vars

\* C4 (as claimed): the ID getCommandID mints for a new or a resubmitted
\* command is not the ID of a command in the map at that moment, and neither
\* creation nor commandResubmit installs over an entry that is there.
C4_MintedIDIsFresh ==
    [][\A p \in Handlers :
         /\ (MintStep(p) /\ loc[p].op \in {"handleNewCommand", "commandResubmit"})
                => commandCounter' \notin DOMAIN commands
         /\ CreateInstallStep(p) => loc[p].c.ID \notin DOMAIN commands
         /\ ResubmitInstallStep(p) => loc[p].newid \notin DOMAIN commands]_vars

\* the policy expireReaper judges the command v by
CountPolicy(v) == v.ExpireClients > 0
DurationPolicy(v) == v.ExpireClients = 0 /\ v.ExpireDuration > 0
TimePolicy(v) ==
    v.ExpireClients = 0 /\ v.ExpireDuration = 0 /\ ~IsZero(v.ExpireTime)

\* C5: a reaper tick removes a command with ExpireClients = n > 0 if and
\* only if its checkin log has at least n entries at that tick.
C5_CountExpiry ==
    [][ScanStep =>
         \A k \in DOMAIN commands :
             CountPolicy(commands[k]) =>
                 (RemovedByStep(k)
                      <=> Len(commands[k].checkedIn) >= commands[k].ExpireClients)]_vars

\* C5 witness: a tick has just removed a command with ExpireClients = 2 and
\* two checkins, and left one with ExpireClients = 2 and one checkin
C5_Witness ==
    /\ pc[Reaper] = "reap_unlock"
    /\ \E k \in DOMAIN loc[Reaper].expired :
           /\ loc[Reaper].expired[k].ExpireClients = 2
           /\ Len(loc[Reaper].expired[k].checkedIn) = 2
    /\ \E j \in DOMAIN commands :
           commands[j].ExpireClients = 2 /\ Len(commands[j].checkedIn) = 1

\* C6: a command created with ExpireDuration = d > 0 and no count policy is
\* in the map right after its creation, stays through every reaper tick at
\* which the time since ExpireStarted is at most d, and is removed by a tick
\* at which that time exceeds d.
C6_DurationExpiry ==
    [][/\ \A p \in Handlers :
              (CreateInstallStep(p) /\ DurationPolicy(loc[p].c)) =>
                  /\ loc[p].c.ID \in DOMAIN commands'
                  /\ commands'[loc[p].c.ID] = loc[p].c
       /\ ScanStep =>
              \A k \in DOMAIN commands :
                  DurationPolicy(commands[k]) =>
                      (RemovedByStep(k)
                           <=> now - commands[k].ExpireStarted
                                  > commands[k].ExpireDuration)]_vars

\* C6 witness: a tick has just removed a command whose duration of 1 s had
\* been exceeded, and left one whose duration had exactly elapsed
C6_Witness ==
    /\ pc[Reaper] = "reap_unlock"
    /\ \E k \in DOMAIN loc[Reaper].expired :
           /\ DurationPolicy(loc[Reaper].expired[k])
           /\ now - loc[Reaper].expired[k].ExpireStarted
                  > loc[Reaper].expired[k].ExpireDuration
    /\ \E j \in DOMAIN commands :
           /\ DurationPolicy(commands[j])
           /\ now - commands[j].ExpireStarted = commands[j].ExpireDuration

\* C7 (as claimed): a reaper tick removes a command whose only policy is the
\* absolute time if and only if now >= ExpireTime, now being the time the
\* tick read.
C7_TimeExpiryAtOrAfter ==
    [][ScanStep =>
         \A k \in DOMAIN commands :
             TimePolicy(commands[k]) =>
                 (RemovedByStep(k) <=> loc[Reaper].now >= commands[k].ExpireTime)]_vars

\* C7 (amended): a reaper tick removes a command whose only policy is the
\* absolute time if and only if now > ExpireTime, now being the time the
\* tick read: a tick at exactly now = ExpireTime leaves the command.
C7_TimeExpiryStrictlyAfter ==
    [][ScanStep =>
         \A k \in DOMAIN commands :
             TimePolicy(commands[k]) =>
                 (RemovedByStep(k) <=> loc[Reaper].now > commands[k].ExpireTime)]_vars

\* C7 witness: a tick that read now = ExpireTime has just left a command
\* with the time policy, and removed one whose ExpireTime was before now
C7_Witness ==
    /\ pc[Reaper] = "reap_unlock"
    /\ \E j \in DOMAIN commands :
           TimePolicy(commands[j]) /\ commands[j].ExpireTime = loc[Reaper].now
    /\ \E k \in DOMAIN loc[Reaper].expired :
           /\ TimePolicy(loc[Reaper].expired[k])
           /\ loc[Reaper].expired[k].ExpireTime < loc[Reaper].now

\* the command handleNewCommand builds from a form whose three expiry fields
\* are blank
CreatedBlank(c) ==
    \E r \in {r \in ExpiryForms : /\ r.expire_responses = <<>>
                                 /\ r.expire_duration = <<>>
                                 /\ r.expire_time = <<>>} :
        c = BuildCommand(r, c.ID, c.ExpireStarted, ParseExpireClients(<<>>),
                         ParseExpireDuration(<<>>),
                         ParseExpireTime(<<>>, c.ExpireStarted))

\* C8 (as claimed): the command handleNewCommand builds has ExpireClients 0,
\* ExpireDuration 0, a zero ExpireTime for each expiry field that is blank
\* or does not parse, and no reaper tick removes a command created with the
\* three fields blank.
C8_BlankFieldsDisableExpiry ==
    [][/\ \A p \in Handlers :
              (MintStep(p) /\ loc[p].op = "handleNewCommand") =>
                  LET r == loc[p].r
                      c == loc'[p].c
                  IN  /\ Atoi(r.expire_responses).err => c.ExpireClients = 0
                      /\ ParseDuration(r.expire_duration).err => c.ExpireDuration = 0
                      /\ ParseKitchen(r.expire_time).err => IsZero(c.ExpireTime)
       /\ ScanStep =>
              \A k \in DOMAIN commands :
                  CreatedBlank(commands[k]) => ~RemovedByStep(k)]_vars

\* C9 (as claimed): no ID the reaper has removed is in the map again, in
\* any later state.
C9_ReapedStaysGone == \A k \in reaped : k \notin DOMAIN commands

\* C9 (amended): a reaper tick leaves no entry under the IDs it removes, and
\* an ID the reaper has removed comes back into the map only by an install
\* under that ID: the merge processor merging an inbound map that holds it,
\* or a new or resubmitted command that was given it.
C9_ReapedGoneUntilInstalled ==
    [][/\ ScanStep => \A k \in reaped' \ reaped : k \notin DOMAIN commands'
       /\ \A k \in reaped :
              (k \notin DOMAIN commands /\ k \in DOMAIN commands') =>
                  \/ MergeInstallStep /\ loc[Merger].k = k
                  \/ \E p \in Handlers :
                         \/ CreateInstallStep(p) /\ loc[p].c.ID = k
                         \/ ResubmitInstallStep(p) /\ loc[p].newid = k]_vars

\* C9 witness: the merger has just installed, as a new command, an ID the
\* reaper had removed
C9_Witness ==
    /\ pc[Merger] = "merge_unlock"
    /\ loc[Merger].k \in reaped
    /\ ~loc[Merger].ok
    /\ loc[Merger].k \in DOMAIN commands

\* C10: commandCheckIn, commandDelete, commandResubmit and shouldRecord on an
\* ID that is not in the map leave the map and the counter as they are;
\* commandCheckIn returns, commandDelete and commandResubmit answer "not
\* found", shouldRecord answers false.
C10_UnknownIDNoOp ==
    [][\A p \in Handlers :
         (/\ pc[p] \in {"commandCheckIn", "commandDelete", "commandResubmit",
                        "shouldRecord"}
          /\ pc'[p] # pc[p]
          /\ loc[p].id \notin DOMAIN commands)
             => /\ commands' = commands
                /\ commandCounter' = commandCounter
                /\ pc'[p] = "idle"
                /\ commandLock' = Free
                /\ pc[p] \in {"commandDelete", "commandResubmit"}
                       => loc'[p].ret = NotFound(loc[p].id)
                /\ pc[p] = "shouldRecord" => loc'[p].ret = FALSE]_vars

\* C10 witness: commandResubmit has just answered "not found" for an ID the
\* reaper had removed, and the counter is still at that ID
C10_Witness ==
    \E p \in Handlers :
        /\ pc[p] = "idle"
        /\ loc[p].op = "commandResubmit"
        /\ loc[p].ret = NotFound(loc[p].arg)
        /\ loc[p].arg \in reaped
        /\ loc[p].arg \notin DOMAIN commands
        /\ commandCounter = loc[p].arg

\* the fields commandResubmit copies from the original
ResubmitFields ==
    {"Type", "Record", "Command", "FilesSend", "FilesRecv", "LogLevel",
     "LogPath", "Filter"}

\* C11 (as claimed): commandResubmit(id) on a command in the map adds one
\* entry under a new ID that is not id, with the copied fields of the
\* original, an empty checkin log and no expiry policy; the original entry
\* is unchanged; no reaper tick removes a command without an expiry policy.
C11_ResubmitAddsFreshCopy ==
    [][/\ \A p \in Handlers :
              ResubmitInstallStep(p) =>
                  LET id == loc[p].id
                      newid == loc[p].newid
                  IN  /\ newid # id
                      /\ newid \notin DOMAIN commands
                      /\ DOMAIN commands' = DOMAIN commands \cup {newid}
                      /\ \A f \in ResubmitFields :
                             commands'[newid][f] = commands[id][f]
                      /\ commands'[newid].checkedIn = <<>>
                      /\ commands'[newid].ExpireClients = 0
                      /\ commands'[newid].ExpireDuration = 0
                      /\ IsZero(commands'[newid].ExpireTime)
                      /\ \A k \in DOMAIN commands : commands'[k] = commands[k]
       /\ ScanStep =>
              \A k \in DOMAIN commands :
                  (~CountPolicy(commands[k]) /\ ~DurationPolicy(commands[k])
                       /\ ~TimePolicy(commands[k])) => ~RemovedByStep(k)]_vars

\* commandDeleteFiles answers, and not with the error of os.RemoveAll
DeleteFilesStep(p) ==
    /\ pc[p] = "commandDeleteFiles"
    /\ pc'[p] = "idle"
    /\ loc'[p].ret # <<"error">>

\* C12 (as claimed): when commandDeleteFiles(id) has answered (without a
\* filesystem error), no responses are stored for id, whether or not a
\* command with that ID is in the map.
C12_DeleteFilesAlwaysRemoves ==
    [][\A p \in Handlers :
         DeleteFilesStep(p) => loc[p].id \notin responses']_vars

\* http.Get has returned (with a response or an error)
FetchReturnStep == pc[Merger] = "get" /\ pc'[Merger] \notin {"get", "get_blocked"}

\* C13: during a merge a file that is in local storage is not requested
\* from the parent; a file whose fetch fails (transport or filesystem error)
\* is skipped and the loop goes on with the rest of the list; the command is
\* installed whatever became of its files, and the merge processor goes back
\* to the queue only when every command of the batch has been through.
C13_FailedFetchSkipsOneFile ==
    [][/\ (/\ pc[Merger] = "stat"
           /\ loc[Merger].todo # <<>>
           /\ Head(loc[Merger].todo) \in DOMAIN files
           /\ loc'[Merger] # loc[Merger])
              => /\ pc'[Merger] = "stat"
                 /\ loc'[Merger].todo = Tail(loc[Merger].todo)
                 /\ files' = files
       /\ FetchReturnStep
              => /\ pc'[Merger] = "stat"
                 /\ loc'[Merger].todo = Tail(loc[Merger].todo)
                 /\ loc'[Merger].k = loc[Merger].k
                 /\ loc'[Merger].v = loc[Merger].v
                 /\ loc'[Merger].c = loc[Merger].c
                 /\ \A n \in DOMAIN files : n \in DOMAIN files' /\ files'[n] = files[n]
       /\ (pc[Merger] = "stat" /\ pc'[Merger] \notin {"stat", "get"})
              => /\ loc[Merger].todo = <<>>
                 /\ pc'[Merger] = "merge_lock"
                 /\ loc'[Merger] = loc[Merger]
       /\ MergeInstallStep => loc[Merger].k \in DOMAIN commands'
       /\ (pc[Merger] = "range" /\ pc'[Merger] = "recv")
              => loc[Merger].done = DOMAIN loc[Merger].batch]_vars

\* C13 witness: the batch is through, both its commands were installed, the
\* fetch of f1 failed and that of f2, next in the list, stored the file
C13_Witness ==
    /\ pc[Merger] = "range"
    /\ loc[Merger].c = <<>>
    /\ loc[Merger].done = {1, 2}
    /\ <<"f1">> \notin DOMAIN files
    /\ <<"f2">> \in DOMAIN files
    /\ files[<<"f2">>] = "file"
    /\ {1, 2} \subseteq DOMAIN commands
    /\ commands[1].FilesSend = <<(<<"f1">>), (<<"f2">>)>>

\* C14 (as claimed): the body of a non-success response is never stored:
\* every file in local storage holds the bytes of a successful fetch.
C14_NonSuccessStoresNothing ==
    \A n \in DOMAIN files : files[n] = "file"

\* C20: the merge processor holds commandLock in the install step of one
\* command and nowhere else: not while it looks for the files, not while a
\* fetch from the parent is pending.
C20_MergerLockOnlyForInstall ==
    /\ commandLock = Merger <=> pc[Merger] \in {"merge_install", "merge_unlock"}
    /\ pc[Merger] \in {"stat", "get", "get_blocked"} => commandLock # Merger

\* C20 witness: a fetch that never returns is pending and commandDelete has
\* the lock, for the command the files are fetched for
C20_Witness ==
    /\ pc[Merger] = "get_blocked"
    /\ commandLock = "h1"
    /\ pc["h1"] = "commandDelete"
    /\ loc["h1"].id = loc[Merger].k
    /\ loc[Merger].k \in DOMAIN commands

\* C15 (as claimed): under fair scheduling a pending fetch comes to an end,
\* the command it was for is then installed, and the merge processor gets
\* back to its queue, so the batches behind are merged.
C15_PendingFetchEnds ==
    /\ (pc[Merger] \in {"get", "get_blocked"}) ~> (pc[Merger] = "merge_unlock")
    /\ (pc[Merger] # "recv") ~> (pc[Merger] = "recv")

\* C16: the update queue never holds more than its capacity; it changes only
\* by a send that appends one batch while there is room, or by the merge
\* processor receiving its head; a producer that finds the queue full waits
\* with its batch and, when it goes on, has appended it: no batch is dropped
\* or replaced, and batches are received in the order they were sent.
C16_QueueBoundedFifo ==
    [][/\ Len(updateCommandQueue') <= QueueCap
       /\ updateCommandQueue' # updateCommandQueue =>
              \/ /\ Len(updateCommandQueue) < QueueCap
                 /\ Len(updateCommandQueue') = Len(updateCommandQueue) + 1
                 /\ IsPrefix(updateCommandQueue, updateCommandQueue')
              \/ /\ pc[Merger] = "recv"
                 /\ pc'[Merger] = "range"
                 /\ updateCommandQueue' = Tail(updateCommandQueue)
                 /\ loc'[Merger].batch = Head(updateCommandQueue)
                 /\ loc'[Merger].c = Head(updateCommandQueue)
       /\ \A p \in Handlers :
              /\ (pc[p] = "send" /\ pc'[p] = "send") => loc'[p] = loc[p]
              /\ (pc[p] = "send" /\ pc'[p] # "send") =>
                     updateCommandQueue' =
                         Append(updateCommandQueue, loc[p].newCommands)]_vars

\* C16 witness: the queue is full of two batches that differ, the merge
\* processor is at work on an earlier batch and a producer waits to send
C16_Witness ==
    /\ Len(updateCommandQueue) = QueueCap
    /\ updateCommandQueue[1] # updateCommandQueue[2]
    /\ pc[Merger] = "merge_install"
    /\ loc[Merger].batch = updateCommandQueue[2]
    /\ \E p \in Handlers : pc[p] = "send"
                            /\ loc[p].newCommands = updateCommandQueue[1]

\* C17 (as claimed): when the merge processor has installed a command of an
\* inbound map the counter is at least its ID, and so in every state the
\* counter is at least the ID of every command merged so far.
C17_MergeRaisesCounter ==
    [][MergeInstallStep => commandCounter' >= loc[Merger].k]_vars

\* the one policy a command is judged by, in the order count, duration,
\* absolute time, a policy being set when its value is above zero (for the
\* time: not the zero time)
JudgedExpired(v, tickNow, clock) ==
    IF v.ExpireClients > 0
    THEN Len(v.checkedIn) >= v.ExpireClients
    ELSE IF v.ExpireDuration > 0
    THEN Since(clock, v.ExpireStarted) > v.ExpireDuration
    ELSE IF ~IsZero(v.ExpireTime)
    THEN After(tickNow, v.ExpireTime)
    ELSE FALSE

\* C18 (as claimed): a reaper tick removes a command if and only if the one
\* policy chosen for it (count if ExpireClients > 0, else duration if
\* ExpireDuration > 0, else the absolute time if set) is satisfied; a count
\* or a duration that is not above zero is not a policy.
C18_OnePolicyInOrder ==
    [][ScanStep =>
         \A k \in DOMAIN commands :
             RemovedByStep(k) <=> JudgedExpired(commands[k], loc[Reaper].now, now)]_vars

\* where a goroutine reads or writes the command map or a checkin log
MapAccess ==
    {"commandCheckIn", "commandDelete", "shouldRecord", "commandDeleteFiles",
     "commandResubmit", "resubmit_install", "new_install", "reap_scan",
     "merge_install", "encode"}

\* C19 (as claimed): the command map and the checkin logs are written only
\* by the goroutine that holds commandLock, and never while another
\* goroutine is reading the map: every reader, encodeCommands included,
\* holds the lock too.
C19_MapAccessUnderLock ==
    [][commands' # commands =>
         /\ \E p \in Procs : /\ commandLock = p
                             /\ pc[p] \in MapAccess
                             /\ pc'[p] # pc[p]
         /\ \A q \in Procs : pc[q] \in MapAccess => commandLock = q]_vars

\* where a goroutine waits in Lock() of one of the two mutexes
LockWait == {"gid_lock", "new_lock", "reap_lock", "merge_lock"}

\* C21: the two locks never deadlock. The goroutine that holds
\* commandCounterLock is inside getCommandID or checkMaxCommandID, where it
\* waits for nothing; commandLock is held only in the sections that end
\* with its release; under fair scheduling every lock that is held is
\* released again and no goroutine stays for ever in its wait for a lock.
C21_LocksNeverDeadlock ==
    /\ [](\A p \in Procs :
              /\ commandCounterLock = p => pc[p] \in {"gid_inc", "max_set"}
              /\ pc[p] \in {"new_lock", "reap_lock", "merge_lock"}
                     => commandCounterLock # p /\ commandLock # p
              /\ pc[p] = "gid_lock" =>
                     (commandLock = p <=> loc[p].op = "commandResubmit"))
    /\ []<>(commandLock = Free)
    /\ []<>(commandCounterLock = Free)
    /\ \A p \in Procs : []<>(pc[p] \notin LockWait)

\* C21 witness: commandResubmit holds commandLock and waits for
\* commandCounterLock, which handleNewCommand of the other handler holds in
\* getCommandID, while
\* the reaper and the merge processor wait for commandLock
C21_Witness ==
    /\ pc["h1"] = "gid_lock"
    /\ loc["h1"].op = "commandResubmit"
    /\ commandLock = "h1"
    /\ commandCounterLock = "h2"
    /\ pc[Reaper] = "reap_lock"
    /\ pc[Merger] = "merge_lock"

=============================================================================
